---- MODULE Spec2Model ----
(***************************************************************************)
(* Model of the main process (src/unnamed/part_000) of the Online-Fix      *)
(* store application: the Steam catalog cache behind the get-steam-applist *)
(* handler, the download-extract-fix pipeline and the remote fetchers.     *)
(***************************************************************************)
EXTENDS Integers, Sequences, FiniteSets, TLC

(***************************************************************************)
(* Bounds of the model.                                                    *)
(***************************************************************************)
\* how many times the clock may advance in one behaviour
MaxTicks == 2
\* how many lookups are started in one behaviour
MaxLookups == 2
\* how many entries the root of an extracted archive has at most
MaxChildren == 2
\* Calls of loadSteamAppList in a run of the renderer.
MaxCalls == 3

(***************************************************************************)
(* Program constants.                                                      *)
(***************************************************************************)
\* const CACHE_DURATION = 7 * 24 * 60 * 60 * 1000 (milliseconds)
CACHE_DURATION == 7 * 24 * 60 * 60 * 1000

\* The callers of get-steam-applist that may be in flight at the same time.
Lookups == {1, 2}

\* Clock advances: one millisecond, or half the validity window (two of them
\* age a file that was just written to exactly CACHE_DURATION).
TickSteps == {1, CACHE_DURATION \div 2}

\* Catalog documents ({applist: {apps: [{appid, name}, ...]}}), as the
\* sequence of their apps. The last one names appid 10 twice.
App(i, n) == [appid |-> i, name |-> n]
Catalogs ==
  { <<App(10, "a")>>,
    <<App(10, "a"), App(20, "b")>>,
    <<App(10, "a"), App(10, "c")>> }

\* Errors a remote catalog fetch can end with: a network-level error, or a
\* body that JSON.parse (or data.applist.apps.length) rejects.
FetchErrors == {"ENOTFOUND", "SyntaxError"}
\* The error JSON.parse throws on a cache file that does not parse.
CacheParseError == "SyntaxError"

NoData == <<"nodata">>
NoResult == [success |-> FALSE, error |-> "none", apps |-> <<>>, totalApps |-> 0, cached |-> FALSE]

(***************************************************************************)
(* State.                                                                  *)
(***************************************************************************)
VARIABLES
  now,        \* Date.now(), in milliseconds since an origin one validity
              \* window before the first state
  ticks,      \* clock advances so far
  cacheFile,  \* APPLIST_CACHE_FILE: [kind: absent | json | corrupt, data, mtime]
  lpc,        \* per lookup: idle | fetching | resolved | rejected | done
  ldata,      \* per lookup: the document getSteamAppList resolved with
  lerr,       \* per lookup: the error getSteamAppList rejected with
  lresult,    \* per lookup: what the get-steam-applist handler returned
  lobs,       \* per lookup: what the lookup saw and did (history)
  lcount,     \* lookups started so far
  \* download-extract-fix
  ppc,        \* idle | get1 | get2 | pipe | extract | done | hung
  appID,      \* the appID argument
  szAt,       \* which of sevenZipPaths exist on this machine
  rarAt,      \* which of winrarPaths exist on this machine
  tempDir,    \* the temp workspace: [exists, zip, name], zip being the temp
              \* file (none, empty, or the body of the response with a
              \* status) and name the Date.now() in the directory's name
  dl,         \* the download: [gets, status, redirected, to], to being
              \* where the second GET went
  pos,        \* the extraction method being awaited: [s, i]
  extractionSuccess,
  lastError,  \* message of the last error caught, or NoError
  attempts,   \* the extraction methods invoked so far, in order (history)
  install,    \* [listing, source]: the extracted root and the folder chosen
  target,     \* targetFolder, as a tree
  presult,    \* what the handler returned
  peer,       \* another download-extract-fix invocation: [pc, name]
  \* the other handlers
  fx,         \* fetch-remote-file
  by,         \* download-bypass
  up,         \* update-onlinefix-appids
  rd          \* the renderer: steamAppListCache, steamAppListLoaded, the
              \* calls of loadSteamAppList and the last name looked up

catalogVars == <<now, ticks, cacheFile, lpc, ldata, lerr, lresult, lobs, lcount>>
pipelineVars == <<ppc, appID, szAt, rarAt, tempDir, dl, pos, extractionSuccess,
                  lastError, attempts, install, target, presult>>
otherVars == <<peer, fx, by, up, rd>>
vars == <<now, ticks, cacheFile, lpc, ldata, lerr, lresult, lobs, lcount,
          ppc, appID, szAt, rarAt, tempDir, dl, pos, extractionSuccess,
          lastError, attempts, install, target, presult, peer, fx, by, up,
          rd>>

AbsentFile == [kind |-> "absent", data |-> NoData, mtime |-> 0]
JsonFile(d, t) == [kind |-> "json", data |-> d, mtime |-> t]
CorruptFile(t) == [kind |-> "corrupt", data |-> NoData, mtime |-> t]

\* History of one lookup: the cache file as it was when the lookup started
\* (and its age then), the network requests the lookup issued, how its fetch
\* ended and with which document, the cache file as the catch block found it,
\* and where the returned document came from.
NoObs ==
  [ startFile |-> AbsentFile, startAge |-> 0, net |-> 0,
    fetch |-> "none", fetched |-> NoData, fetchErr |-> "none",
    catchFile |-> AbsentFile, caught |-> FALSE,
    overwritten |-> FALSE, source |-> "none", wrote |-> AbsentFile ]

(***************************************************************************)
(* Pure functions.                                                         *)
(***************************************************************************)
\* isCacheValid(), mutated: the boundary age counts as fresh
isCacheValidLe(file, t) ==
  /\ file.kind # "absent"
  /\ t - file.mtime <= CACHE_DURATION

\* isCacheValid(): the file exists and age < CACHE_DURATION
isCacheValid(file, t) ==
  /\ file.kind # "absent"
  /\ t - file.mtime < CACHE_DURATION

\* appMap of the handler: appMap[app.appid] = app.name for each app in
\* order, so the last entry of an appid wins.
RECURSIVE AppMapFrom(_, _)
AppMapFrom(apps, m) ==
  IF apps = <<>> THEN m
  ELSE LET a == Head(apps)
           ks == DOMAIN m \cup {a.appid}
       IN AppMapFrom(Tail(apps),
                     [k \in ks |-> IF k = a.appid THEN a.name ELSE m[k]])

AppMap(apps) == AppMapFrom(apps, <<>>)

\* What a read of the cache file gives: readFileSync + JSON.parse, which
\* throws on a file that does not parse.
ReadCache(file) ==
  IF file.kind = "json"
  THEN [ok |-> TRUE, data |-> file.data, err |-> "none"]
  ELSE [ok |-> FALSE, data |-> NoData, err |-> CacheParseError]

\* The catch block of getSteamAppList, mutated: the error is always rethrown
CatchFallbackRethrow(file, e) ==
  [ok |-> FALSE, data |-> NoData, err |-> e]

\* The catch block of getSteamAppList, mutated: an absent file yields an
\* empty catalog instead of the error
CatchFallbackEmpty(file, e) ==
  IF file.kind # "absent" THEN ReadCache(file)
  ELSE [ok |-> TRUE, data |-> <<>>, err |-> "none"]

\* The catch block of getSteamAppList: when the cache file exists it is read
\* and parsed (whatever its age), otherwise the error e is rethrown.
CatchFallback(file, e) ==
  IF file.kind # "absent" THEN ReadCache(file)
  ELSE [ok |-> FALSE, data |-> NoData, err |-> e]

\* JSON.stringify and JSON.parse on a catalog document: the text is the
\* sequence of the apps' entries, each appid written in decimal digits.
RECURSIVE Digits(_)
Digits(n) == IF n < 10 THEN <<n>> ELSE Append(Digits(n \div 10), n % 10)
RECURSIVE NumberOf(_)
NumberOf(ds) ==
  IF Len(ds) = 1 THEN ds[1]
  ELSE 10 * NumberOf(SubSeq(ds, 1, Len(ds) - 1)) + ds[Len(ds)]
JsonStringify(d) ==
  [i \in 1..Len(d) |-> [appid |-> Digits(d[i].appid), name |-> d[i].name]]
JsonParse(text) ==
  [i \in 1..Len(text) |-> App(NumberOf(text[i].appid), text[i].name)]

\* saveToCache(), mutated: nothing is written
SaveToCacheSkipped(file, d, t) == file

\* saveToCache(), mutated: the mapping is written, one entry per appid
SaveToCacheMapping(file, d, t) ==
  LET m == AppMap(d)
      ids == DOMAIN m
      RECURSIVE Listed(_)
      Listed(S) == IF S = {} THEN <<>>
                   ELSE LET k == CHOOSE x \in S : \A y \in S : x <= y
                        IN <<App(k, m[k])>> \o Listed(S \ {k})
  IN JsonFile(JsonParse(JsonStringify(Listed(ids))), t)

\* saveToCache(), mutated: the fetched entries are added to those the file
\* holds
SaveToCacheMerged(file, d, t) ==
  IF file.kind = "json"
  THEN JsonFile(JsonParse(JsonStringify(file.data \o d)), t)
  ELSE JsonFile(JsonParse(JsonStringify(d)), t)

\* saveToCache(): writeFileSync(APPLIST_CACHE_FILE, JSON.stringify(data)),
\* the modification time being the time of the write. A cache file is held
\* as the document its text parses to.
SaveToCache(file, d, t) == JsonFile(JsonParse(JsonStringify(d)), t)

\* The handler's result for a document getSteamAppList resolved with; the
\* cached field is isCacheValid() as evaluated when the result is built.
SuccessResult(d, file, t) ==
  [ success |-> TRUE, error |-> "none", apps |-> AppMap(d),
    totalApps |-> Len(d), cached |-> isCacheValid(file, t) ]

\* The handler's result when getSteamAppList rejected (the result has no
\* totalApps and no cached field; they keep their placeholder values here).
FailureResult(e) ==
  [ success |-> FALSE, error |-> e, apps |-> <<>>,
    totalApps |-> 0, cached |-> FALSE ]

(***************************************************************************)
(* download-extract-fix: data.                                             *)
(***************************************************************************)
\* sevenZipPaths.length and winrarPaths.length
NPaths == 4

\* Extraction methods, in the order of the code.
ExtractZip == 1
SevenZip == 2
WinRAR == 3

\* Which of the four probed paths of a tool exist: none, the default
\* location (listed twice: literally and through %ProgramFiles%), the x86
\* location, only the %ProgramFiles% one, or all of them.
InstalledAt == {{}, {1, 3}, {2, 4}, {3}, {1, 2, 3, 4}}

\* error.message of a failed extraction method (it may be empty)
ErrMsgs == {"", "exit code 2"}
NoError == "null"

\* Status codes of a response, and errors of a request.
Statuses == {200, 301, 302, 404}
NetErrors == {"ECONNRESET"}
\* response.headers.location of a redirect: an absolute URL, a relative
\* reference, or no header at all.
Locations == {"absolute", "relative", "missing"}

\* File and directory names, as sequences of characters.
Ids == {<<"4">>, <<"4", "0">>}
Names == {<<"4">>, <<"4", "0">>, <<"x", "4", "0">>, <<"x">>}

\* Trees: a file with its content, a directory with its entries in
\* readdir order, or nothing at that path.
File(d) == [type |-> "file", data |-> d, kids |-> <<>>]
Dir(k) == [type |-> "dir", data |-> "", kids |-> k]
Nothing == [type |-> "none", data |-> "", kids |-> <<>>]
Entry(n, t) == [name |-> n, node |-> t]

\* What an entry of the extracted root can be.
SubNodes ==
  { File("new"), Dir(<<>>), Dir(<<Entry(<<"f">>, File("new"))>>) }
RootEntries == {Entry(n, t) : n \in Names, t \in SubNodes}

\* The listings of an extracted root: entries with distinct names.
Listings ==
  UNION { { l \in [1..n -> RootEntries] :
              \A i, j \in 1..n : l[i].name = l[j].name => i = j }
          : n \in 0..MaxChildren }

\* targetFolder before the run: missing, empty, or holding files and
\* directories, some at paths the archive also has.
Targets ==
  { Nothing,
    Dir(<<>>),
    Dir(<<Entry(<<"4">>, File("old")), Entry(<<"y">>, File("old"))>>),
    Dir(<<Entry(<<"f">>, Dir(<<>>)), Entry(<<"x">>, File("old"))>>) }

NoTemp == [exists |-> FALSE, zip |-> <<"none">>, name |-> 0]
NoDownload == [gets |-> 0, status |-> 0, redirected |-> FALSE, to |-> "none"]
NoPos == [s |-> 0, i |-> 0]
NoInstall == [listing |-> <<>>, source |-> <<"none">>]
NoPResult == [success |-> FALSE, text |-> <<"none">>]

PipelineIdle ==
  /\ ppc = "idle"
  /\ appID = <<>>
  /\ tempDir = NoTemp
  /\ dl = NoDownload
  /\ pos = NoPos
  /\ extractionSuccess = FALSE
  /\ lastError = NoError
  /\ attempts = <<>>
  /\ install = NoInstall
  /\ presult = NoPResult

(***************************************************************************)
(* The other handlers: data.                                               *)
(***************************************************************************)
\* URLs, as sequences of pieces; url.includes(piece) looks for a piece.
Urls == { <<"https://", "online-fix.me", "/index.php">>,
          <<"https://", "online-fix-store.vercel.app", "/Home.txt">> }
UrlIncludes(url, piece) == \E i \in 1..Len(url) : url[i] = piece

\* What follows "charset=" in the Content-Type header of a response;
\* "absent" when the header names no charset.
Charsets == {"absent", "utf-8", "UTF-8", "utf8", " UTF8 ", "windows-1251",
             "Windows-1251", "x-unknown"}

\* No other invocation of download-extract-fix.
NoPeer == [pc |-> "idle", name |-> 0]
\* fetch-remote-file is not running.
NoFx == [pc |-> "idle", url |-> <<>>, status |-> 0, charset |-> "absent",
         encoding |-> "none", decodedAs |-> "none", err |-> "none"]
\* download-bypass is not running; save is the file at the chosen path.
NoBy == [pc |-> "idle", save |-> <<"none">>, dl |-> NoDownload,
         result |-> NoPResult]
\* update-onlinefix-appids is not running; steam and plugin tell what the
\* disk holds, file is the plugin's appIDs.txt.
NoUp == [pc |-> "idle", steam |-> FALSE, plugin |-> FALSE, dl |-> NoDownload,
         file |-> <<"none">>, result |-> NoPResult]

\* The renderer after its script ran: steamAppListCache = {},
\* steamAppListLoaded = false, loadSteamAppList not called yet.
Callers == {1, 2}
NoName == [id |-> 0, name |-> <<"none">>, from |-> <<>>]
NoRd == [cache |-> <<>>, loaded |-> FALSE,
         pc |-> [c \in Callers |-> "idle"],
         ret |-> [c \in Callers |-> <<>>],
         how |-> [c \in Callers |-> "none"],
         calls |-> 0, invoked |-> 0, shown |-> NoName]

OthersIdle ==
  /\ rd = NoRd
  /\ peer = NoPeer
  /\ fx = NoFx
  /\ by = NoBy
  /\ up = NoUp

(***************************************************************************)
(* The download code shared, line for line, by download-extract-fix and    *)
(* download-bypass: one GET, at most one redirect followed.                *)
(***************************************************************************)
\* https.get(url): the first request is out.
FirstGet == [gets |-> 1, status |-> 0, redirected |-> FALSE, to |-> "none"]

\* The callback of the first GET. On 301/302 it calls
\* https.get(response.headers.location): an absolute URL is requested; a
\* relative reference makes https.get throw inside the callback, so that
\* the promise is never settled; a missing header makes the request go to
\* the default host. Any other status than 200 rejects.
OnResponse1(d, st, loc) ==
  IF st \in {301, 302}
  THEN CASE loc = "absolute" ->
              [dl |-> [d EXCEPT !.gets = 2, !.redirected = TRUE,
                                !.to = "location"],
               pc |-> "get2"]
         [] loc = "missing" ->
              [dl |-> [d EXCEPT !.gets = 2, !.redirected = TRUE,
                                !.to = "localhost"],
               pc |-> "get2"]
         [] OTHER ->
              [dl |-> [d EXCEPT !.redirected = TRUE], pc |-> "hung"]
  ELSE IF st # 200
       THEN [dl |-> [d EXCEPT !.status = st], pc |-> "failed"]
       ELSE [dl |-> [d EXCEPT !.status = st], pc |-> "pipe"]

\* A callback that would treat the redirect target's answer as the first
\* one, following a further redirect.
OnResponse2Follow(d, st) ==
  IF st \in {301, 302}
  THEN [dl |-> [d EXCEPT !.gets = @ + 1], pc |-> "get2"]
  ELSE [dl |-> [d EXCEPT !.status = st], pc |-> "pipe"]

\* The callback of the second GET: redirectResponse.pipe(file), whatever
\* the status and the headers.
OnResponse2(d, st) ==
  [dl |-> [d EXCEPT !.status = st], pc |-> "pipe"]

(***************************************************************************)
(* download-extract-fix: pure functions.                                   *)
(***************************************************************************)
\* fs.existsSync of the path an extraction method runs from (extract-zip is
\* a library and always there).
ToolExists(q, sz, rar) ==
  \/ q.s = ExtractZip /\ q.i = 1
  \/ q.s = SevenZip /\ q.i \in sz
  \/ q.s = WinRAR /\ q.i \in rar

Before(a, b) == a.s < b.s \/ (a.s = b.s /\ a.i < b.i)

AllPos == {[s |-> m, i |-> k] : m \in {ExtractZip, SevenZip, WinRAR}, k \in 1..NPaths}

\* The method the code invokes after the one at q failed, mutated: a failed
\* 7-Zip ends the chain
NextPosStopAfter7Zip(q, sz, rar) ==
  LET later == {r \in AllPos : Before(q, r) /\ ToolExists(r, sz, rar)
                                /\ (q.s = SevenZip => r.s = SevenZip)}
  IN IF later = {} THEN NoPos
     ELSE CHOOSE r \in later : \A r2 \in later : r2 = r \/ Before(r, r2)

\* The method invoked next, mutated: a tool found at none of its paths ends
\* the chain
NextPosStopAtMissingTool(q, sz, rar) ==
  LET later == {r \in AllPos : Before(q, r) /\ ToolExists(r, sz, rar)
                                /\ (sz = {} => r.s # WinRAR)}
  IN IF later = {} THEN NoPos
     ELSE CHOOSE r \in later : \A r2 \in later : r2 = r \/ Before(r, r2)

\* The method the code invokes after the one at q failed: the next path of
\* the 7-Zip list, then of the WinRAR list, that exists; NoPos when the
\* loops run out.
NextPos(q, sz, rar) ==
  LET later == {r \in AllPos : Before(q, r) /\ ToolExists(r, sz, rar)}
  IN IF later = {} THEN NoPos
     ELSE CHOOSE r \in later : \A r2 \in later : r2 = r \/ Before(r, r2)

HintText == ". Please install 7-Zip or WinRAR."

\* The error thrown when no method succeeded, mutated: the first error is
\* reported instead of the last
AllFailedTextFirst(tried, last) ==
  << "All extraction methods failed. Last error: ",
     IF tried[1].msg = "" THEN "Unknown error" ELSE tried[1].msg,
     HintText >>

\* The error thrown when no method succeeded:
\* `All extraction methods failed. Last error: ${lastError?.message ||
\* 'Unknown error'}. Please install 7-Zip or WinRAR.`
AllFailedText(tried, last) ==
  << "All extraction methods failed. Last error: ",
     IF last = NoError \/ last = "" THEN "Unknown error" ELSE last,
     HintText >>

\* item.includes(appID)
Includes(item, id) ==
  \E k \in 0..(Len(item) - Len(id)) : SubSeq(item, k + 1, k + Len(id)) = id

IsDirNamed(listing, n) ==
  \E i \in 1..Len(listing) : listing[i].name = n /\ listing[i].node.type = "dir"

Matches(listing, id) ==
  {i \in 1..Len(listing) :
     listing[i].node.type = "dir" /\ Includes(listing[i].name, id)}

\* The source folder, mutated: the substring scan comes before the exact
\* match
ResolveSourceScanFirst(listing, id) ==
  IF Matches(listing, id) # {}
  THEN LET i == CHOOSE k \in Matches(listing, id) :
                  \A k2 \in Matches(listing, id) : k <= k2
       IN listing[i].name
  ELSE <<>>

\* The source folder the code copies from: the child directory named appID,
\* else the first child directory (readdir order) whose name includes
\* appID, else the extracted root (written <<>>).
ResolveSource(listing, id) ==
  IF IsDirNamed(listing, id) THEN id
  ELSE IF Matches(listing, id) # {}
       THEN LET i == CHOOSE k \in Matches(listing, id) :
                       \A k2 \in Matches(listing, id) : k <= k2
            IN listing[i].name
       ELSE <<>>

\* The tree at the source folder.
SourceNode(listing, src) ==
  IF src = <<>> THEN Dir(listing)
  ELSE LET i == CHOOSE k \in 1..Len(listing) : listing[k].name = src
       IN listing[i].node

HasChild(t, n) == t.type = "dir" /\ \E i \in 1..Len(t.kids) : t.kids[i].name = n
Child(t, n) ==
  IF HasChild(t, n)
  THEN t.kids[CHOOSE i \in 1..Len(t.kids) : t.kids[i].name = n].node
  ELSE Nothing
\* t with the child n set to c (appended when new).
WithChild(t, n, c) ==
  IF HasChild(t, n)
  THEN Dir([i \in 1..Len(t.kids) |->
              IF t.kids[i].name = n THEN Entry(n, c) ELSE t.kids[i]])
  ELSE Dir(Append(t.kids, Entry(n, c)))

\* copyRecursive(src, dest) over the entries ks of src, in order; dest is the
\* tree at the destination path. Gives the destination afterwards and
\* whether the copy ran to its end (fs calls throw on a missing or
\* non-directory parent and on a file copied onto a directory; what was
\* copied before the throw stays).
RECURSIVE CopyEntries(_, _)
CopyEntries(ks, dest) ==
  IF ks = <<>> THEN [node |-> dest, ok |-> TRUE]
  ELSE
    LET k == Head(ks)
        one ==
          IF k.node.type = "dir"
          THEN \* existsSync(destPath) else mkdirSync(destPath, recursive)
               IF dest.type = "file" THEN [node |-> dest, ok |-> FALSE]
               ELSE LET made == IF HasChild(dest, k.name) THEN dest
                                ELSE WithChild(Dir(dest.kids), k.name, Dir(<<>>))
                        sub == CopyEntries(k.node.kids, Child(made, k.name))
                    IN [node |-> WithChild(made, k.name, sub.node), ok |-> sub.ok]
          ELSE \* copyFileSync(srcPath, destPath)
               IF dest.type = "dir" /\ Child(dest, k.name).type # "dir"
               THEN [node |-> WithChild(dest, k.name, File(k.node.data)), ok |-> TRUE]
               ELSE [node |-> dest, ok |-> FALSE]
    IN IF one.ok THEN CopyEntries(Tail(ks), one.node) ELSE one

copyRecursive(src, dest) == CopyEntries(src.kids, dest)

(***************************************************************************)
(* The catalog lookup: get-steam-applist and getSteamAppList.              *)
(***************************************************************************)
\* Modification times of a cache file found at start: it is then exactly
\* CACHE_DURATION old, one millisecond younger, or just written.
InitMtimes == {0, 1, CACHE_DURATION}

InitCatalog ==
  /\ now = CACHE_DURATION
  /\ ticks = 0
  /\ cacheFile \in {AbsentFile}
                   \cup {JsonFile(d, t) : d \in Catalogs, t \in InitMtimes}
                   \cup {CorruptFile(t) : t \in InitMtimes}
  /\ lpc = [p \in Lookups |-> "idle"]
  /\ ldata = [p \in Lookups |-> NoData]
  /\ lerr = [p \in Lookups |-> "none"]
  /\ lresult = [p \in Lookups |-> NoResult]
  /\ lobs = [p \in Lookups |-> NoObs]
  /\ lcount = 0
  /\ PipelineIdle
  /\ szAt = {}
  /\ rarAt = {}
  /\ target = Nothing
  /\ OthersIdle

\* The handler is invoked; getSteamAppList runs up to its first await.
\* A valid cache is read at once; otherwise the remote fetch is issued.
StartLookup(p) ==
  /\ lpc[p] \in {"idle", "done"}
  /\ lcount < MaxLookups
  /\ lcount' = lcount + 1
  /\ lresult' = [lresult EXCEPT ![p] = NoResult]
  /\ LET seen == [NoObs EXCEPT !.startFile = cacheFile,
                               !.startAge = now - cacheFile.mtime]
     IN IF isCacheValid(cacheFile, now)
        THEN LET r == ReadCache(cacheFile)
                 \* a failed parse lands in the catch block, which reads again
                 c == CatchFallback(cacheFile, r.err)
                 out == IF r.ok THEN r ELSE c
             IN /\ lpc' = [lpc EXCEPT ![p] = IF out.ok THEN "resolved" ELSE "rejected"]
                /\ ldata' = [ldata EXCEPT ![p] = out.data]
                /\ lerr' = [lerr EXCEPT ![p] = out.err]
                /\ lobs' = [lobs EXCEPT ![p] =
                     [seen EXCEPT !.source = IF out.ok THEN "cache" ELSE "none",
                                  !.caught = ~r.ok,
                                  !.catchFile = IF r.ok THEN AbsentFile ELSE cacheFile]]
        ELSE /\ lpc' = [lpc EXCEPT ![p] = "fetching"]
             /\ ldata' = [ldata EXCEPT ![p] = NoData]
             /\ lerr' = [lerr EXCEPT ![p] = "none"]
             /\ lobs' = [lobs EXCEPT ![p] = [seen EXCEPT !.net = 1]]
  /\ UNCHANGED <<now, ticks, cacheFile, pipelineVars, otherVars>>

\* fetchSteamAppList resolved with document d: it is saved to the cache and
\* returned.
FetchOk(p, d) ==
  /\ lpc[p] = "fetching"
  /\ cacheFile' = SaveToCache(cacheFile, d, now)
  /\ lpc' = [lpc EXCEPT ![p] = "resolved"]
  /\ ldata' = [ldata EXCEPT ![p] = d]
  /\ lobs' = [q \in Lookups |->
       IF q = p
       THEN [lobs[q] EXCEPT !.fetch = "ok", !.fetched = d, !.source = "remote",
                            !.wrote = cacheFile']
       ELSE IF lpc[q] = "fetching"
            THEN [lobs[q] EXCEPT !.overwritten = TRUE]
            ELSE lobs[q]]
  /\ UNCHANGED <<now, ticks, lerr, lresult, lcount, pipelineVars, otherVars>>

\* fetchSteamAppList rejected with error e: the catch block falls back to the
\* cache file when there is one.
FetchFail(p, e) ==
  /\ lpc[p] = "fetching"
  /\ LET c == CatchFallback(cacheFile, e)
     IN /\ lpc' = [lpc EXCEPT ![p] = IF c.ok THEN "resolved" ELSE "rejected"]
        /\ ldata' = [ldata EXCEPT ![p] = c.data]
        /\ lerr' = [lerr EXCEPT ![p] = c.err]
        /\ lobs' = [lobs EXCEPT ![p] =
             [@ EXCEPT !.fetch = "fail", !.fetchErr = e, !.caught = TRUE,
                       !.catchFile = cacheFile,
                       !.source = IF c.ok THEN "cache" ELSE "none"]]
  /\ UNCHANGED <<now, ticks, cacheFile, lresult, lcount, pipelineVars, otherVars>>

\* The handler continues after `await getSteamAppList()` and returns.
Respond(p) ==
  /\ lpc[p] \in {"resolved", "rejected"}
  /\ lresult' = [lresult EXCEPT ![p] =
       IF lpc[p] = "resolved"
       THEN SuccessResult(ldata[p], cacheFile, now)
       ELSE FailureResult(lerr[p])]
  /\ lpc' = [lpc EXCEPT ![p] = "done"]
  /\ ldata' = [ldata EXCEPT ![p] = NoData]
  /\ lerr' = [lerr EXCEPT ![p] = "none"]
  /\ UNCHANGED <<now, ticks, cacheFile, lobs, lcount, pipelineVars, otherVars>>

\* The clock advances.
Tick(d) ==
  /\ ticks < MaxTicks
  /\ ticks' = ticks + 1
  /\ now' = now + d
  /\ UNCHANGED <<cacheFile, lpc, ldata, lerr, lresult, lobs, lcount, pipelineVars, otherVars>>

NextCatalog ==
  \/ \E p \in Lookups : StartLookup(p)
  \/ \E p \in Lookups, d \in Catalogs : FetchOk(p, d)
  \/ \E p \in Lookups, e \in FetchErrors : FetchFail(p, e)
  \/ \E p \in Lookups : Respond(p)
  \/ \E d \in TickSteps : Tick(d)

SpecCatalog == InitCatalog /\ [][NextCatalog]_vars

(***************************************************************************)
(* The download-extract-fix handler.                                       *)
(***************************************************************************)
CatalogIdle ==
  /\ now = CACHE_DURATION
  /\ ticks = 0
  /\ cacheFile = AbsentFile
  /\ lpc = [p \in Lookups |-> "idle"]
  /\ ldata = [p \in Lookups |-> NoData]
  /\ lerr = [p \in Lookups |-> "none"]
  /\ lresult = [p \in Lookups |-> NoResult]
  /\ lobs = [p \in Lookups |-> NoObs]
  /\ lcount = 0

InitPipeline ==
  /\ CatalogIdle
  /\ PipelineIdle
  /\ OthersIdle
  /\ szAt \in InstalledAt
  /\ rarAt \in InstalledAt
  /\ target \in Targets

\* A handler that would log the error and carry on with the next stage.
FailedCarriesOn(text) ==
  /\ presult' = presult
  /\ ppc' = "pipe"

\* The catch block of the handler: { success: false, error: error.message }.
\* Nothing is cleaned up.
Failed(text) ==
  /\ presult' = [success |-> FALSE, text |-> text]
  /\ ppc' = "done"

\* The handler is invoked: the temp directory is made, the write stream on
\* tempZipPath is created and the GET of url is issued.
StartFix(id) ==
  /\ ppc = "idle"
  /\ appID' = id
  /\ tempDir' = [exists |-> TRUE, zip |-> <<"empty">>, name |-> now]
  /\ dl' = FirstGet
  /\ ppc' = "get1"
  /\ UNCHANGED <<szAt, rarAt, pos, extractionSuccess, lastError, attempts,
                 install, target, presult, catalogVars, otherVars>>

\* The response to the first GET arrives, with status st and Location loc.
Response1(st, loc) ==
  /\ ppc = "get1"
  /\ LET r == OnResponse1(dl, st, loc)
     IN /\ dl' = r.dl
        /\ IF r.pc = "failed"
           THEN Failed(<<"Failed to download: ", st>>)
           ELSE ppc' = r.pc /\ UNCHANGED presult
  /\ UNCHANGED <<appID, szAt, rarAt, tempDir, pos, extractionSuccess, lastError,
                 attempts, install, target, catalogVars, otherVars>>

\* The response of the redirect target arrives: it is piped to the file
\* whatever its status.
Response2(st) ==
  /\ ppc = "get2"
  /\ LET r == OnResponse2(dl, st)
     IN dl' = r.dl /\ ppc' = r.pc
  /\ UNCHANGED <<appID, szAt, rarAt, tempDir, pos, extractionSuccess, lastError,
                 attempts, install, target, presult, catalogVars, otherVars>>

\* The request made with an undefined Location may have lost its response
\* callback: the response is then discarded and the promise never settled.
Response2Lost ==
  /\ ppc = "get2"
  /\ dl.to = "localhost"
  /\ ppc' = "hung"
  /\ UNCHANGED <<appID, szAt, rarAt, tempDir, dl, pos, extractionSuccess,
                 lastError, attempts, install, target, presult, catalogVars,
                 otherVars>>

\* Either request emits 'error': the temp zip is unlinked and the promise
\* rejected.
RequestError(e) ==
  /\ ppc \in {"get1", "get2"}
  /\ tempDir' = [tempDir EXCEPT !.zip = <<"none">>]
  /\ Failed(<<e>>)
  /\ UNCHANGED <<appID, szAt, rarAt, dl, pos, extractionSuccess, lastError,
                 attempts, install, target, catalogVars, otherVars>>

\* The write stream emits 'finish': the body is on disk, the promise
\* resolves, the extraction folder is made and extract-zip is started.
PipeFinish ==
  /\ ppc = "pipe"
  /\ tempDir' = [tempDir EXCEPT !.zip = <<"body", dl.status>>]
  /\ pos' = [s |-> ExtractZip, i |-> 1]
  /\ ppc' = "extract"
  /\ UNCHANGED <<appID, szAt, rarAt, dl, extractionSuccess, lastError,
                 attempts, install, target, presult, catalogVars, otherVars>>

\* The response stream breaks while it is piped: no 'finish' and no
\* rejection follow.
PipeError ==
  /\ ppc = "pipe"
  /\ ppc' = "hung"
  /\ UNCHANGED <<appID, szAt, rarAt, tempDir, dl, pos, extractionSuccess,
                 lastError, attempts, install, target, presult, catalogVars, otherVars>>

\* The awaited extraction method succeeds, leaving `listing` in the
\* extraction folder; the source folder is resolved and copied to
\* targetFolder, the temp directory is deleted and the handler returns, all
\* in one synchronous run. An error of the copy lands in the catch block.
ExtractOk(listing) ==
  /\ ppc = "extract"
  /\ attempts' = Append(attempts, [pos |-> pos, ok |-> TRUE, msg |-> ""])
  /\ extractionSuccess' = TRUE
  /\ LET src == ResolveSource(listing, appID)
         c == copyRecursive(SourceNode(listing, src), target)
     IN /\ install' = [listing |-> listing, source |-> src]
        /\ target' = c.node
        /\ IF c.ok
           THEN /\ tempDir' = [NoTemp EXCEPT !.name = tempDir.name]
                /\ presult' = [success |-> TRUE, text |-> <<"Fix extracted successfully!">>]
           ELSE /\ tempDir' = tempDir
                /\ presult' = [success |-> FALSE, text |-> <<"copy failed">>]
  /\ ppc' = "done"
  /\ UNCHANGED <<appID, szAt, rarAt, dl, pos, lastError, catalogVars, otherVars>>

\* The awaited extraction method throws (or the tool exits non-zero) with
\* message m: the next method whose path exists is started, or the handler
\* gives up.
ExtractFail(m) ==
  /\ ppc = "extract"
  /\ attempts' = Append(attempts, [pos |-> pos, ok |-> FALSE, msg |-> m])
  /\ lastError' = m
  /\ LET next == NextPos(pos, szAt, rarAt)
     IN IF next = NoPos
        THEN /\ Failed(AllFailedText(attempts', lastError'))
             /\ pos' = pos
        ELSE /\ pos' = next
             /\ UNCHANGED <<ppc, presult>>
  /\ UNCHANGED <<appID, szAt, rarAt, tempDir, dl, extractionSuccess, install,
                 target, catalogVars, otherVars>>

\* The run with every machine (which tool paths exist) and every chain of
\* extraction failures, over two archives.
ChainListings ==
  { <<>>, <<Entry(<<"4">>, Dir(<<Entry(<<"f">>, File("new"))>>))>> }

NextPipeline ==
  \/ \E id \in Ids : StartFix(id)
  \/ \E st \in Statuses, loc \in Locations : Response1(st, loc)
  \/ \E st \in Statuses : Response2(st)
  \/ Response2Lost
  \/ \E e \in NetErrors : RequestError(e)
  \/ PipeFinish
  \/ PipeError
  \/ \E l \in ChainListings : ExtractOk(l)
  \/ \E m \in ErrMsgs : ExtractFail(m)

SpecPipeline == InitPipeline /\ [][NextPipeline]_vars

\* The run with every archive listing and target folder, on a machine with
\* no 7-Zip and WinRAR absent or at its default location.
InitInstall ==
  /\ CatalogIdle
  /\ PipelineIdle
  /\ OthersIdle
  /\ szAt = {}
  /\ rarAt \in {{}, {1, 3}}
  /\ target \in Targets

NextInstall ==
  \/ \E id \in Ids : StartFix(id)
  \/ \E st \in Statuses, loc \in Locations : Response1(st, loc)
  \/ \E st \in Statuses : Response2(st)
  \/ Response2Lost
  \/ \E e \in NetErrors : RequestError(e)
  \/ PipeFinish
  \/ PipeError
  \/ \E l \in Listings : ExtractOk(l)
  \/ \E m \in ErrMsgs : ExtractFail(m)

SpecInstall == InitInstall /\ [][NextInstall]_vars

(***************************************************************************)
(* fetch-remote-file.                                                      *)
(***************************************************************************)
\* String.prototype.trim and toLowerCase, on the header values above.
Trim(c) == IF c = " UTF8 " THEN "UTF8" ELSE c
ToLowerCase(c) ==
  CASE c \in {"UTF-8"} -> "utf-8"
    [] c \in {"UTF8"} -> "utf8"
    [] c \in {"Windows-1251"} -> "windows-1251"
    [] OTHER -> c

\* An override that looks at the URL alone.
ChooseEncodingByHost(url, cs) ==
  IF UrlIncludes(url, "online-fix.me")
  THEN "windows-1251"
  ELSE IF cs = "absent" THEN "utf8" ELSE ToLowerCase(Trim(cs))

\* The encoding the 'end' callback settles on: 'utf8' unless the header
\* names a charset, then windows-1251 if the URL includes 'online-fix.me'
\* and the encoding is (still, or again) the string 'utf8'.
ChooseEncoding(url, cs) ==
  LET encoding == IF cs = "absent" THEN "utf8" ELSE ToLowerCase(Trim(cs))
  IN IF UrlIncludes(url, "online-fix.me") /\ encoding = "utf8"
     THEN "windows-1251"
     ELSE encoding

\* iconv.decode throws on an encoding it does not know, and the catch
\* decodes as UTF-8; the result names the decoding that produced the text.
DecodedAs(encoding) ==
  CASE encoding \in {"utf8", "utf-8"} -> "UTF-8"
    [] encoding = "windows-1251" -> "windows-1251"
    [] OTHER -> "UTF-8"

\* The handler is invoked: https.get(url) is out and the promise returned.
StartFetch(url) ==
  /\ fx.pc = "idle"
  /\ fx' = [fx EXCEPT !.pc = "get", !.url = url]
  /\ UNCHANGED <<catalogVars, pipelineVars, rd, peer, by, up>>

\* The response arrives; its status is not looked at.
FxResponse(st, cs) ==
  /\ fx.pc = "get"
  /\ fx' = [fx EXCEPT !.pc = "body", !.status = st, !.charset = cs]
  /\ UNCHANGED <<catalogVars, pipelineVars, rd, peer, by, up>>

\* 'end': the body is decoded and the promise resolved with the text.
FxEnd ==
  /\ fx.pc = "body"
  /\ LET encoding == ChooseEncoding(fx.url, fx.charset)
     IN fx' = [fx EXCEPT !.pc = "resolved", !.encoding = encoding,
                         !.decodedAs = DecodedAs(encoding)]
  /\ UNCHANGED <<catalogVars, pipelineVars, rd, peer, by, up>>

\* The connection breaks after the response began: 'end' never comes and
\* nothing listens to the response's 'error'.
FxAbort ==
  /\ fx.pc = "body"
  /\ fx' = [fx EXCEPT !.pc = "hung"]
  /\ UNCHANGED <<catalogVars, pipelineVars, rd, peer, by, up>>

\* The request emits 'error': reject(err). The promise was returned, not
\* awaited, so the handler's catch never sees it: the caller gets the
\* rejection.
FxError(e) ==
  /\ fx.pc = "get"
  /\ fx' = [fx EXCEPT !.pc = "rejected", !.err = e]
  /\ UNCHANGED <<catalogVars, pipelineVars, rd, peer, by, up>>

(***************************************************************************)
(* download-bypass.                                                        *)
(***************************************************************************)
\* A catch block that lets the error out of the handler.
ByFailedRethrow(b, text) == [b EXCEPT !.pc = "rejected"]

\* The catch block of the handler.
ByFailed(b, text) ==
  [b EXCEPT !.pc = "done", !.result = [success |-> FALSE, text |-> text]]

\* The handler is invoked and shows the save dialog.
StartBypass ==
  /\ by.pc = "idle"
  /\ by' = [by EXCEPT !.pc = "dialog"]
  /\ UNCHANGED <<catalogVars, pipelineVars, rd, peer, fx, up>>

\* The dialog is dismissed.
DialogCancel ==
  /\ by.pc = "dialog"
  /\ by' = ByFailed(by, <<"Download cancelled">>)
  /\ UNCHANGED <<catalogVars, pipelineVars, rd, peer, fx, up>>

\* A path is chosen: the write stream on savePath is created and the GET
\* issued.
DialogSave ==
  /\ by.pc = "dialog"
  /\ by' = [by EXCEPT !.pc = "get1", !.save = <<"empty">>, !.dl = FirstGet]
  /\ UNCHANGED <<catalogVars, pipelineVars, rd, peer, fx, up>>

ByResponse1(st, loc) ==
  /\ by.pc = "get1"
  /\ LET r == OnResponse1(by.dl, st, loc)
     IN by' = IF r.pc = "failed"
              THEN ByFailed([by EXCEPT !.dl = r.dl],
                            <<"Failed to download: ", st>>)
              ELSE [by EXCEPT !.dl = r.dl, !.pc = r.pc]
  /\ UNCHANGED <<catalogVars, pipelineVars, rd, peer, fx, up>>

ByResponse2(st) ==
  /\ by.pc = "get2"
  /\ LET r == OnResponse2(by.dl, st)
     IN by' = [by EXCEPT !.dl = r.dl, !.pc = r.pc]
  /\ UNCHANGED <<catalogVars, pipelineVars, rd, peer, fx, up>>

ByResponse2Lost ==
  /\ by.pc = "get2"
  /\ by.dl.to = "localhost"
  /\ by' = [by EXCEPT !.pc = "hung"]
  /\ UNCHANGED <<catalogVars, pipelineVars, rd, peer, fx, up>>

\* Either request emits 'error': fs.unlink(savePath) and reject.
ByRequestError(e) ==
  /\ by.pc \in {"get1", "get2"}
  /\ by' = ByFailed([by EXCEPT !.save = <<"none">>], <<e>>)
  /\ UNCHANGED <<catalogVars, pipelineVars, rd, peer, fx, up>>

\* 'finish' of the write stream: the notification is shown and success
\* returned with the path.
ByPipeFinish ==
  /\ by.pc = "pipe"
  /\ by' = [by EXCEPT !.pc = "done",
                      !.save = <<"body", by.dl.status>>,
                      !.result = [success |-> TRUE,
                                  text |-> <<"Bypass downloaded successfully!">>]]
  /\ UNCHANGED <<catalogVars, pipelineVars, rd, peer, fx, up>>

\* The response or the write stream breaks: nothing listens, 'finish'
\* never comes.
ByPipeError ==
  /\ by.pc = "pipe"
  /\ by' = [by EXCEPT !.pc = "hung"]
  /\ UNCHANGED <<catalogVars, pipelineVars, rd, peer, fx, up>>

(***************************************************************************)
(* update-onlinefix-appids.                                                *)
(***************************************************************************)
UpFailed(u, text) ==
  [u EXCEPT !.pc = "done", !.result = [success |-> FALSE, text |-> text]]

\* The handler is invoked: Steam and the plugin folder are looked for, then
\* the GET of the fixed URL is issued.
StartUpdate ==
  /\ up.pc = "idle"
  /\ up' = IF ~up.steam
           THEN UpFailed(up, <<"Steam installation not found. Please ensure Steam is installed.">>)
           ELSE IF ~up.plugin
           THEN UpFailed(up, <<"OnlineFix plugin not found. Please install the plugin first.">>)
           ELSE [up EXCEPT !.pc = "get1", !.dl = FirstGet]
  /\ UNCHANGED <<catalogVars, pipelineVars, rd, peer, fx, by>>

UpResponse1(st, loc) ==
  /\ up.pc = "get1"
  /\ LET r == OnResponse1(up.dl, st, loc)
     IN up' = IF r.pc = "failed"
              THEN UpFailed([up EXCEPT !.dl = r.dl],
                            <<"Failed to download: ", st>>)
              ELSE [up EXCEPT !.dl = r.dl, !.pc = r.pc]
  /\ UNCHANGED <<catalogVars, pipelineVars, rd, peer, fx, by>>

UpResponse2(st) ==
  /\ up.pc = "get2"
  /\ LET r == OnResponse2(up.dl, st)
     IN up' = [up EXCEPT !.dl = r.dl, !.pc = r.pc]
  /\ UNCHANGED <<catalogVars, pipelineVars, rd, peer, fx, by>>

UpResponse2Lost ==
  /\ up.pc = "get2"
  /\ up.dl.to = "localhost"
  /\ up' = [up EXCEPT !.pc = "hung"]
  /\ UNCHANGED <<catalogVars, pipelineVars, rd, peer, fx, by>>

\* Either request emits 'error': reject.
UpRequestError(e) ==
  /\ up.pc \in {"get1", "get2"}
  /\ up' = UpFailed(up, <<e>>)
  /\ UNCHANGED <<catalogVars, pipelineVars, rd, peer, fx, by>>

\* 'end' of the response: the text is written over appIDs.txt, the
\* notification shown and success returned.
UpEnd ==
  /\ up.pc = "pipe"
  /\ up' = [up EXCEPT !.pc = "done",
                      !.file = <<"body", up.dl.status>>,
                      !.result = [success |-> TRUE,
                                  text |-> <<"appIDs.txt updated successfully!">>]]
  /\ UNCHANGED <<catalogVars, pipelineVars, rd, peer, fx, by>>

\* The connection breaks after the response began: 'end' never comes.
UpAbort ==
  /\ up.pc = "pipe"
  /\ up' = [up EXCEPT !.pc = "hung"]
  /\ UNCHANGED <<catalogVars, pipelineVars, rd, peer, fx, by>>

(***************************************************************************)
(* The five handlers, one invocation in a run: they share no state.        *)
(***************************************************************************)
AllIdle ==
  /\ \A p \in Lookups : lpc[p] = "idle"
  /\ ppc = "idle"
  /\ fx.pc = "idle"
  /\ by.pc = "idle"
  /\ up.pc = "idle"

InitHandlers ==
  /\ now = CACHE_DURATION
  /\ ticks = 0
  /\ cacheFile \in {AbsentFile, CorruptFile(CACHE_DURATION)}
                   \cup {JsonFile(d, 0) : d \in Catalogs}
  /\ lpc = [p \in Lookups |-> "idle"]
  /\ ldata = [p \in Lookups |-> NoData]
  /\ lerr = [p \in Lookups |-> "none"]
  /\ lresult = [p \in Lookups |-> NoResult]
  /\ lobs = [p \in Lookups |-> NoObs]
  /\ lcount = 0
  /\ PipelineIdle
  /\ szAt = {}
  /\ rarAt \in {{}, {1, 3}}
  /\ target = Nothing
  /\ rd = NoRd
  /\ peer = NoPeer
  /\ fx = NoFx
  /\ by = NoBy
  /\ up \in {[NoUp EXCEPT !.steam = s, !.plugin = g, !.file = f] :
               s \in BOOLEAN, g \in BOOLEAN, f \in {<<"none">>, <<"old">>}}

NextHandlers ==
  \/ AllIdle /\ \E p \in Lookups : StartLookup(p)
  \/ \E p \in Lookups, d \in Catalogs : FetchOk(p, d)
  \/ \E p \in Lookups, e \in FetchErrors : FetchFail(p, e)
  \/ \E p \in Lookups : Respond(p)
  \/ AllIdle /\ \E id \in Ids : StartFix(id)
  \/ \E st \in Statuses, loc \in Locations : Response1(st, loc)
  \/ \E st \in Statuses : Response2(st)
  \/ Response2Lost
  \/ \E e \in NetErrors : RequestError(e)
  \/ PipeFinish
  \/ PipeError
  \/ \E l \in ChainListings : ExtractOk(l)
  \/ \E m \in ErrMsgs : ExtractFail(m)
  \/ AllIdle /\ \E url \in Urls : StartFetch(url)
  \/ \E st \in Statuses, cs \in Charsets : FxResponse(st, cs)
  \/ FxEnd
  \/ FxAbort
  \/ \E e \in NetErrors : FxError(e)
  \/ AllIdle /\ StartBypass
  \/ DialogCancel
  \/ DialogSave
  \/ \E st \in Statuses, loc \in Locations : ByResponse1(st, loc)
  \/ \E st \in Statuses : ByResponse2(st)
  \/ ByResponse2Lost
  \/ \E e \in NetErrors : ByRequestError(e)
  \/ ByPipeFinish
  \/ ByPipeError
  \/ AllIdle /\ StartUpdate
  \/ \E st \in Statuses, loc \in Locations : UpResponse1(st, loc)
  \/ \E st \in Statuses : UpResponse2(st)
  \/ UpResponse2Lost
  \/ \E e \in NetErrors : UpRequestError(e)
  \/ UpEnd
  \/ UpAbort

SpecHandlers == InitHandlers /\ [][NextHandlers]_vars

(***************************************************************************)
(* Two invocations of download-extract-fix: the run above and a peer, of   *)
(* which only the temp directory's name and the final cleanup are kept.    *)
(***************************************************************************)
\* The peer is invoked: tempDir = online-fix-${Date.now()}, made unless it
\* exists already.
PeerStart ==
  /\ peer.pc = "idle"
  /\ peer' = [pc |-> "running", name |-> now]
  /\ UNCHANGED <<catalogVars, pipelineVars, fx, by, up, rd>>

\* The peer returns. On success it has deleted the directory of its name,
\* which is this run's directory when the names are the same; on failure
\* it deletes nothing.
PeerEnd(ok) ==
  /\ peer.pc = "running"
  /\ peer' = [peer EXCEPT !.pc = "done"]
  /\ tempDir' = IF ok /\ tempDir.exists /\ tempDir.name = peer.name
                THEN [tempDir EXCEPT !.exists = FALSE, !.zip = <<"none">>]
                ELSE tempDir
  /\ UNCHANGED <<ppc, appID, szAt, rarAt, dl, pos, extractionSuccess,
                 lastError, attempts, install, target, presult, catalogVars,
                 fx, by, up, rd>>

InitTwoRuns ==
  /\ CatalogIdle
  /\ PipelineIdle
  /\ OthersIdle
  /\ szAt = {}
  /\ rarAt = {}
  /\ target = Nothing

NextTwoRuns ==
  \/ \E id \in Ids : StartFix(id)
  \/ \E st \in Statuses, loc \in Locations : Response1(st, loc)
  \/ \E st \in Statuses : Response2(st)
  \/ Response2Lost
  \/ \E e \in NetErrors : RequestError(e)
  \/ PipeFinish
  \/ PipeError
  \/ \E l \in ChainListings : ExtractOk(l)
  \/ \E m \in ErrMsgs : ExtractFail(m)
  \/ PeerStart
  \/ \E ok \in BOOLEAN : PeerEnd(ok)
  \/ \E d \in TickSteps : Tick(d)

SpecTwoRuns == InitTwoRuns /\ [][NextTwoRuns]_vars

(***************************************************************************)
(* The renderer: loadSteamAppList and getGameNameFromAppID.                *)
(***************************************************************************)
\* Documents the backend may have: those above and one with an app whose
\* name is the empty string.
RendererCatalogs == Catalogs \cup {<<App(10, "a"), App(30, "")>>}

\* What `await window.electronAPI.getSteamAppList()` can give: the
\* handler's success result for a document, or its failure result.
BackendResults ==
  {SuccessResult(d, AbsentFile, 0) : d \in RendererCatalogs}
    \cup {FailureResult(e) : e \in FetchErrors}

\* The identifiers names are asked for.
AskedIds == {10, 20, 30}

\* The placeholder `Game ${appID}`.
Placeholder(id) == <<"Game ", id>>

\* getGameNameFromAppID, mutated: the stored value is returned whenever the
\* identifier is a key of the mapping
getGameNameFromAppIDIfPresent(cache, id) ==
  IF id \in DOMAIN cache THEN <<cache[id]>> ELSE Placeholder(id)

\* getGameNameFromAppID(appID) on the mapping cache: the stored value when
\* steamAppListCache[appID] is truthy (a key with a non-empty name), else
\* the placeholder.
getGameNameFromAppID(cache, id) ==
  IF id \in DOMAIN cache /\ cache[id] # ""
  THEN <<cache[id]>>
  ELSE Placeholder(id)

\* loadSteamAppList() is called by caller c: with the flag set it returns
\* the stored mapping at once; otherwise it invokes the backend and waits.
LoadCall(c) ==
  /\ rd.pc[c] \in {"idle", "returned"}
  /\ rd.calls < MaxCalls
  /\ rd' = IF rd.loaded
           THEN [rd EXCEPT !.calls = @ + 1, !.pc[c] = "returned",
                           !.ret[c] = rd.cache, !.how[c] = "memo"]
           ELSE [rd EXCEPT !.calls = @ + 1, !.invoked = @ + 1,
                           !.pc[c] = "awaiting", !.ret[c] = <<>>,
                           !.how[c] = "none"]
  /\ UNCHANGED <<catalogVars, pipelineVars, peer, fx, by, up>>

\* The backend's result r arrives: on success the mapping is stored, the
\* flag set and the mapping returned; otherwise {} is returned.
LoadReturn(c, r) ==
  /\ rd.pc[c] = "awaiting"
  /\ rd' = IF r.success
           THEN [rd EXCEPT !.cache = r.apps, !.loaded = TRUE,
                           !.pc[c] = "returned", !.ret[c] = r.apps,
                           !.how[c] = "success"]
           ELSE [rd EXCEPT !.pc[c] = "returned", !.ret[c] = <<>>,
                           !.how[c] = "failure"]
  /\ UNCHANGED <<catalogVars, pipelineVars, peer, fx, by, up>>

\* The invocation throws: the catch returns {}.
LoadThrow(c) ==
  /\ rd.pc[c] = "awaiting"
  /\ rd' = [rd EXCEPT !.pc[c] = "returned", !.ret[c] = <<>>,
                      !.how[c] = "throw"]
  /\ UNCHANGED <<catalogVars, pipelineVars, peer, fx, by, up>>

\* getGameNameFromAppID(id) is called.
NameLookup(id) ==
  /\ rd' = [rd EXCEPT !.shown = [id |-> id,
                                 name |-> getGameNameFromAppID(rd.cache, id),
                                 from |-> rd.cache]]
  /\ UNCHANGED <<catalogVars, pipelineVars, peer, fx, by, up>>

InitRenderer ==
  /\ CatalogIdle
  /\ PipelineIdle
  /\ OthersIdle
  /\ szAt = {}
  /\ rarAt = {}
  /\ target = Nothing

NextRenderer ==
  \/ \E c \in Callers : LoadCall(c)
  \/ \E c \in Callers, r \in BackendResults : LoadReturn(c, r)
  \/ \E c \in Callers : LoadThrow(c)
  \/ \E id \in AskedIds : NameLookup(id)

SpecRenderer == InitRenderer /\ [][NextRenderer]_vars

(***************************************************************************)
(* Claims about the catalog lookup.                                        *)
(***************************************************************************)
\* Seven days, in milliseconds: the validity window the claims speak of.
SevenDays == 7 * 86400000

Started(p) == lpc[p] # "idle"
StartedFresh(p) ==
  lobs[p].startFile.kind # "absent" /\ lobs[p].startAge < SevenDays
StartedStale(p) ==
  lobs[p].startFile.kind # "absent" /\ lobs[p].startAge >= SevenDays
StartedAbsent(p) == Started(p) /\ lobs[p].startFile.kind = "absent"
Returned(p, d) ==
  /\ lresult[p].success
  /\ lresult[p].apps = AppMap(d)
  /\ lresult[p].totalApps = Len(d)

\* C2: a lookup that finds a cache file younger than 7 days (by its
\* modification time) issues no network request and, the file being a
\* catalog document, returns the file's contents; a lookup that finds a file
\* aged exactly 7 days or more does not treat it as fresh: it fetches.
C2_FreshCacheNoNetwork ==
  \A p \in Lookups :
    /\ StartedFresh(p) => lobs[p].net = 0 /\ lobs[p].fetch = "none"
    /\ (StartedFresh(p) /\ lobs[p].startFile.kind = "json" /\ lpc[p] = "done")
         => Returned(p, lobs[p].startFile.data)
    /\ StartedStale(p) => lobs[p].net = 1

\* C2 witness: a lookup answered from a file one millisecond short of 7 days.
C2_Witness ==
  \E p \in Lookups :
    /\ lpc[p] = "done"
    /\ lobs[p].startFile.kind = "json"
    /\ lobs[p].startAge = SevenDays - 1
    /\ lobs[p].net = 0
    /\ Returned(p, lobs[p].startFile.data)

\* C3: a lookup that finds the cache stale (7 days or older) or absent
\* performs the fetch; when the fetch succeeds, the step that receives the
\* document overwrites the cache file with exactly that document (modified
\* now), and the lookup returns exactly the document's entries.
C3_FetchedSnapshotSavedAndReturned ==
  /\ [](\A p \in Lookups :
          /\ (StartedStale(p) \/ StartedAbsent(p)) => lobs[p].net = 1
          /\ lobs[p].fetch = "ok" => StartedStale(p) \/ StartedAbsent(p)
          /\ (lobs[p].fetch = "ok" /\ lpc[p] = "done")
               => Returned(p, lobs[p].fetched))
  /\ [][\A p \in Lookups :
          (lobs[p].fetch # "ok" /\ lobs'[p].fetch = "ok")
            => cacheFile' = JsonFile(lobs'[p].fetched, now)]_vars

\* C3 witness: a stale catalog was replaced by a different, fetched one,
\* which the lookup returned.
C3_Witness ==
  \E p \in Lookups :
    /\ lpc[p] = "done"
    /\ StartedStale(p)
    /\ lobs[p].startFile.kind = "json"
    /\ lobs[p].fetch = "ok"
    /\ lobs[p].fetched # lobs[p].startFile.data
    /\ cacheFile.kind = "json" /\ cacheFile.data = lobs[p].fetched
    /\ Returned(p, lobs[p].fetched)

\* C4: a lookup that finds a stale catalog file and whose fetch fails returns
\* success with the entries of the cache file: those of the expired snapshot
\* it found, unless another lookup replaced the file while this one was
\* fetching, in which case those of the file as it is when the fetch fails.
C4_StaleFallback ==
  \A p \in Lookups :
    (/\ lpc[p] = "done"
     /\ StartedStale(p)
     /\ lobs[p].startFile.kind = "json"
     /\ lobs[p].fetch = "fail")
      => /\ lresult[p].success
         /\ lresult[p].error = "none"
         /\ lobs[p].catchFile.kind = "json"
         /\ Returned(p, lobs[p].catchFile.data)
         /\ ~lobs[p].overwritten => lobs[p].catchFile = lobs[p].startFile

\* C4 witness: the expired snapshot itself was returned after a failed fetch.
C4_Witness ==
  \E p \in Lookups :
    /\ lpc[p] = "done"
    /\ StartedStale(p)
    /\ lobs[p].startFile.kind = "json"
    /\ lobs[p].fetch = "fail"
    /\ ~lobs[p].overwritten
    /\ Returned(p, lobs[p].startFile.data)

\* C5: a lookup whose fetch fails while there is no cache file fails: the
\* handler's result has success = false, the fetch's error message and an
\* empty mapping; and no step but the receipt of a fetched document creates
\* or changes the cache file.
C5_AbsentAndFetchFails ==
  /\ [](\A p \in Lookups :
          (/\ lpc[p] = "done"
           /\ lobs[p].fetch = "fail"
           /\ lobs[p].catchFile.kind = "absent")
            => /\ StartedAbsent(p)
               /\ ~lresult[p].success
               /\ lresult[p].error = lobs[p].fetchErr
               /\ lresult[p].apps = <<>>)
  /\ [][cacheFile' # cacheFile
          => \E p \in Lookups : lobs[p].fetch # "ok" /\ lobs'[p].fetch = "ok"]_vars

\* C5 witness: a failed lookup with no cache file before or after it.
C5_Witness ==
  \E p \in Lookups :
    /\ lpc[p] = "done"
    /\ StartedAbsent(p)
    /\ lobs[p].fetch = "fail"
    /\ ~lresult[p].success
    /\ lresult[p].error \in FetchErrors
    /\ cacheFile.kind = "absent"

\* C6: the cached field of a successful result is true exactly when the
\* returned entries were read from the cache file, and false exactly when
\* they came from the remote fetch of that lookup.
C6_CachedFlagTellsSource ==
  \A p \in Lookups :
    (lpc[p] = "done" /\ lresult[p].success)
      => (lresult[p].cached <=> lobs[p].source = "cache")

(***************************************************************************)
(* Claims about download-extract-fix.                                      *)
(***************************************************************************)
\* C1: when a run that created its temp workspace has returned, the
\* workspace directory no longer exists, on every exit path.
C1_TempWorkspaceRemoved ==
  ppc = "done" => ~tempDir.exists

Tried(q) == \E i \in 1..Len(attempts) : attempts[i].pos = q

\* C7: the extraction methods are invoked strictly in the order extract-zip,
\* 7-Zip, WinRAR (each tool at its existing paths in list order): extract-zip
\* is always first, no invocation follows a success, and a method is invoked
\* only after every method and path before it that exists on the machine
\* was invoked and failed; when the run gives up, every one that exists was
\* invoked, so no failure makes the chain skip the next method.
C7_ChainInOrder ==
  /\ \A i, j \in 1..Len(attempts) : i < j => Before(attempts[i].pos, attempts[j].pos)
  /\ Len(attempts) >= 1 => attempts[1].pos = [s |-> ExtractZip, i |-> 1]
  /\ \A i \in 1..Len(attempts) : attempts[i].ok => i = Len(attempts)
  /\ extractionSuccess => ppc = "done"
  /\ \A i \in 1..Len(attempts) : \A q \in AllPos :
       (Before(q, attempts[i].pos) /\ ToolExists(q, szAt, rarAt))
         => \E j \in 1..(i - 1) : attempts[j].pos = q /\ ~attempts[j].ok
  /\ ppc = "extract" =>
       \A q \in AllPos :
         (Before(q, pos) /\ ToolExists(q, szAt, rarAt)) => Tried(q)
  /\ (ppc = "done" /\ Len(attempts) >= 1 /\ ~extractionSuccess) =>
       \A q \in AllPos : ToolExists(q, szAt, rarAt) => Tried(q)

\* C7 witness: extract-zip and 7-Zip failed, WinRAR was invoked and
\* succeeded, and nothing was invoked after it.
C7_Witness ==
  /\ ppc = "done"
  /\ extractionSuccess
  /\ Len(attempts) >= 3
  /\ \E i \in 1..Len(attempts) : attempts[i].pos.s = SevenZip
  /\ attempts[Len(attempts)].pos.s = WinRAR
  /\ attempts[Len(attempts)].ok

\* C8: when every invoked extraction method failed (7-Zip and WinRAR found
\* or not), the run returns a failure whose message holds the error message
\* of the last method invoked ("Unknown error" when that message is empty)
\* and the hint to install 7-Zip or WinRAR.
C8_AllFailedMessage ==
  (ppc = "done" /\ Len(attempts) >= 1 /\ ~extractionSuccess) =>
    LET last == attempts[Len(attempts)].msg
    IN /\ ~presult.success
       /\ Len(presult.text) = 3
       /\ presult.text[2] = (IF last = "" THEN "Unknown error" ELSE last)
       /\ presult.text[3] = ". Please install 7-Zip or WinRAR."

\* C8 witness: three methods failed, the first with another message than the
\* last, and the failure reports the last one's.
C8_Witness ==
  /\ ppc = "done"
  /\ ~extractionSuccess
  /\ Len(attempts) >= 3
  /\ attempts[Len(attempts)].pos.s = WinRAR
  /\ attempts[Len(attempts)].msg = "exit code 2"
  /\ attempts[1].msg = ""
  /\ presult.text[2] = "exit code 2"

DirAt(i) == install.listing[i].node.type = "dir"
ExactAt(i) == DirAt(i) /\ install.listing[i].name = appID
SubstringAt(i) == DirAt(i) /\ Includes(install.listing[i].name, appID)
Children == 1..Len(install.listing)

\* C9: the install source is the child directory named exactly the
\* identifier when there is one; otherwise the first child directory whose
\* name contains the identifier; otherwise the extracted root. A child that
\* is not a directory is never chosen.
C9_SourceResolution ==
  (ppc = "done" /\ extractionSuccess) =>
    /\ (\E i \in Children : ExactAt(i)) => install.source = appID
    /\ ((\A i \in Children : ~ExactAt(i)) /\ (\E i \in Children : SubstringAt(i)))
         => \E i \in Children :
              /\ SubstringAt(i)
              /\ install.source = install.listing[i].name
              /\ \A j \in 1..(i - 1) : ~SubstringAt(j)
    /\ (\A i \in Children : ~SubstringAt(i)) => install.source = <<>>
    /\ \A i \in Children :
         install.source = install.listing[i].name => DirAt(i)

\* C9 witness: a file named exactly the identifier comes first and a
\* directory whose name contains it second; the directory is chosen.
C9_Witness ==
  /\ ppc = "done"
  /\ extractionSuccess
  /\ Len(install.listing) = 2
  /\ install.listing[1].name = appID
  /\ ~DirAt(1)
  /\ SubstringAt(2)
  /\ install.source = install.listing[2].name

\* C10: a download whose final response (after at most one redirect) has a
\* status other than 200 fails with that status: its body is never written
\* to the destination file nor handed to extraction, and the run returns
\* the failure carrying the status code.
C10_Non200Fails ==
  (dl.status # 0 /\ dl.status # 200) =>
    /\ tempDir.zip \in {<<"none">>, <<"empty">>}
    /\ ppc # "extract"
    /\ ppc = "done" =>
         ~presult.success /\ presult.text = <<"Failed to download: ", dl.status>>

(***************************************************************************)
(* Claims about the file downloads and the handlers' results.              *)
(***************************************************************************)
\* The redirect rule on one download: d its record, pc the handler's
\* position, file what is at the destination path.
OneRedirect(d, pc, file) ==
  /\ d.gets <= 2
  /\ d.to = "location" => d.redirected /\ d.gets = 2
  /\ (d.redirected /\ d.status # 0) => pc \notin {"get1", "get2"}
  /\ (d.redirected /\ file[1] = "body") => file = <<"body", d.status>>

\* C11: in a file download (download-extract-fix and download-bypass), a
\* 301 or 302 response whose Location is a URL X causes exactly one further
\* GET, to X, and the response to it is final: no download issues more
\* than two GETs, whatever the second response's status, and what the
\* second response carries (a 200 from X among the rest) is what is written
\* as the file. A Location that cannot be requested is the case of C13.
C11_OneRedirectFollowed ==
  /\ OneRedirect(dl, ppc, tempDir.zip)
  /\ OneRedirect(by.dl, by.pc, by.save)
  /\ ppc = "extract" => tempDir.zip = <<"body", dl.status>>
  /\ (by.pc = "done" /\ by.result.success) => by.save = <<"body", by.dl.status>>

\* Both handlers have written the 200 answer of a redirect target, and a
\* second answer that was itself a redirect has been taken as final.
C11_Witness ==
  /\ by.pc = "done" /\ by.result.success
  /\ by.dl.to = "location" /\ by.dl.gets = 2 /\ by.dl.status = 200
  /\ by.save = <<"body", 200>>

\* A failure result: success is false and a message is carried.
IsFailure(r) == ~r.success /\ r.text # <<"none">>

C13_RunEventuallyReturns ==
  ppc \notin {"idle", "done"} => ENABLED NextPipeline

\* C14: whenever a file download fails (a write failure, a network error,
\* a non-200 status), the operation returns a failure and nothing, neither
\* a partial nor an empty file, is left at the destination path: the temp
\* zip of download-extract-fix and the save path chosen in download-bypass.
C14_FailedDownloadLeavesNoFile ==
  /\ ppc # "hung" /\ by.pc # "hung"
  /\ (ppc = "done" /\ attempts = <<>>) =>
       ~presult.success /\ tempDir.zip = <<"none">>
  /\ (by.pc = "done" /\ by.dl.gets > 0 /\ ~by.result.success) =>
       by.save = <<"none">>

(***************************************************************************)
(* More claims about the catalog lookup.                                   *)
(***************************************************************************)
\* C15: a cache file that cannot be parsed is treated like an absent one,
\* whatever its age: the lookup that finds it attempts a fetch, and when the
\* fetch fails (no other lookup having replaced the file meanwhile) the
\* lookup fails.
C15_CorruptCacheTreatedAsAbsent ==
  \A p \in Lookups :
    (Started(p) /\ lobs[p].startFile.kind = "corrupt")
      => /\ lobs[p].net = 1
         /\ (lpc[p] = "done" /\ lobs[p].fetch = "fail" /\ ~lobs[p].overwritten)
              => ~lresult[p].success

(***************************************************************************)
(* More claims about download-extract-fix.                                 *)
(***************************************************************************)
ChildNames(t) == {t.kids[i].name : i \in 1..Len(t.kids)}

\* The post-condition of a copy of the directory src into a destination
\* that was old and is new: every file of src is in new at the same
\* relative path with the content it has in src, every directory of src is
\* a directory of new at the same relative path, and what old held at paths
\* src does not have is as it was.
RECURSIVE Mirrored(_, _, _)
Mirrored(src, old, new) ==
  /\ \A i \in 1..Len(src.kids) :
       LET k == src.kids[i]
           c == Child(new, k.name)
       IN IF k.node.type = "file"
          THEN c = File(k.node.data)
          ELSE c.type = "dir" /\ Mirrored(k.node, Child(old, k.name), c)
  /\ \A n \in ChildNames(old) \ ChildNames(src) : Child(new, n) = Child(old, n)

\* C16: after copyRecursive completes without error, every file of the
\* source exists in the destination at the same relative path with the
\* source's content, every source directory exists in the destination, and
\* the destination's files at paths the source does not have are unchanged.
C16_CopyTreeMirrors ==
  [][(ppc = "extract" /\ ppc' = "done" /\ presult'.success)
       => Mirrored(SourceNode(install'.listing, install'.source),
                   target, target')]_vars

\* The names under which the code logs a method's failure.
MethodName(s) ==
  CASE s = ExtractZip -> "extract-zip"
    [] s = SevenZip -> "7-Zip"
    [] OTHER -> "WinRAR"
Methods == {ExtractZip, SevenZip, WinRAR}

\* The failures the run has logged ('<name> failed:', error.message), in
\* order.
FailureLog ==
  LET failed == SelectSeq(attempts, LAMBDA a : ~a.ok)
  IN [i \in 1..Len(failed) |->
        [name |-> MethodName(failed[i].pos.s), msg |-> failed[i].msg]]
Logged(s) == \E i \in 1..Len(FailureLog) : FailureLog[i].name = MethodName(s)
AllFailed == ppc = "done" /\ Len(attempts) >= 1 /\ ~extractionSuccess

C18_DistinctWorkspaces ==
  (ppc # "idle" /\ peer.pc # "idle") => tempDir.name # peer.name

(***************************************************************************)
(* Claims about fetch-remote-file.                                         *)
(***************************************************************************)
\* The charset a header value or an encoding name stands for, whatever the
\* case, the padding and the spelling of UTF-8.
CharsetNamed(c) ==
  CASE c \in {"utf-8", "UTF-8", "utf8", "UTF8", " UTF8 "} -> "UTF-8"
    [] c \in {"windows-1251", "Windows-1251"} -> "windows-1251"
    [] OTHER -> c

\* C19: in a text fetch the decoding is chosen as the charset named in the
\* response's Content-Type header when there is one, else UTF-8;
\* windows-1251 is forced only when the URL matches the known host and the
\* header names no charset. A charset the header names explicitly (UTF-8 in
\* any spelling included) is never overridden.
C19_EncodingSelection ==
  fx.pc = "resolved" =>
    IF fx.charset # "absent"
    THEN CharsetNamed(fx.encoding) = CharsetNamed(fx.charset)
    ELSE CharsetNamed(fx.encoding)
           = (IF UrlIncludes(fx.url, "online-fix.me")
              THEN "windows-1251" ELSE "UTF-8")

(***************************************************************************)
(* The cache round trip.                                                   *)
(***************************************************************************)
\* Lookup q, now done, found fresh the very file that lookup p wrote after
\* its fetch.
ReadWhatWasWritten(p, q) ==
  /\ p # q
  /\ lpc[p] = "done" /\ lobs[p].fetch = "ok"
  /\ lpc[q] = "done" /\ StartedFresh(q)
  /\ lobs[q].startFile = lobs[p].wrote

\* C20: after a lookup has fetched a snapshot and written it to the cache,
\* a following lookup that finds that file within the validity window
\* returns the mapping and the total count the first lookup returned.
C20_CacheRoundTrip ==
  \A p, q \in Lookups :
    ReadWhatWasWritten(p, q) =>
      /\ lresult[p].success /\ lresult[q].success
      /\ lresult[q].apps = lresult[p].apps
      /\ lresult[q].totalApps = lresult[p].totalApps
      /\ lresult[q].apps = AppMap(lobs[p].fetched)
      /\ lobs[q].net = 0

\* C20 witness: the snapshot that names an appid twice went through the
\* cache, and the second lookup ran after the clock had advanced.
C20_Witness ==
  \E p, q \in Lookups :
    /\ ReadWhatWasWritten(p, q)
    /\ lobs[p].fetched = <<App(10, "a"), App(10, "c")>>
    /\ lobs[q].startAge > 0
    /\ lresult[q].totalApps = 2

(***************************************************************************)
(* The order of the pipeline's stages.                                     *)
(***************************************************************************)
\* How far a position is along the pipeline.
StageRank(pc) ==
  CASE pc = "idle" -> 0
    [] pc = "get1" -> 1
    [] pc = "get2" -> 2
    [] pc = "pipe" -> 3
    [] pc = "extract" -> 4
    [] OTHER -> 5
\* The download promise resolved: the body of an answer the code accepts
\* (a 200, or whatever the redirect target sent) is in the temp zip.
DownloadCompleted(zip) ==
  zip[1] = "body" /\ (dl.status = 200 \/ dl.redirected)

\* C21: the stages run in the order download, extract, resolve, copy,
\* cleanup, each only after the one before it succeeded: a run only moves
\* forward; extraction starts only when the download has completed; the
\* install source is resolved and the destination folder written only in
\* the step in which an extraction method succeeds, after a completed
\* download; the temp directory is removed only when the copy succeeded.
\* So a run that fails in download or extraction never changes the
\* destination folder.
C21_StagesInOrder ==
  [][/\ ppc' # ppc => StageRank(ppc') > StageRank(ppc)
     /\ (ppc' = "extract" /\ ppc # "extract")
          => ppc = "pipe" /\ DownloadCompleted(tempDir'.zip)
     /\ (target' # target \/ install' # install)
          => /\ ppc = "extract"
             /\ DownloadCompleted(tempDir.zip)
             /\ ~extractionSuccess /\ extractionSuccess'
             /\ attempts'[Len(attempts')].ok
     /\ (tempDir.exists /\ ~tempDir'.exists)
          => ppc = "extract" /\ presult'.success /\ extractionSuccess'
     /\ (ppc' = "done" /\ ~extractionSuccess') => target' = target]_vars

\* C21 witness: after two failed extraction methods a third succeeded, the
\* destination holds the copy and the temp directory is gone.
C21_Witness ==
  /\ ppc = "done" /\ presult.success
  /\ Len(attempts) = 3
  /\ install.listing # <<>>
  /\ target.type = "dir" /\ target.kids # <<>>
  /\ ~tempDir.exists

(***************************************************************************)
(* Writes of the cache file.                                               *)
(***************************************************************************)
\* Lookup p receives its fetched document in this step.
FetchSucceeds(p) == lobs[p].fetch # "ok" /\ lobs'[p].fetch = "ok"
\* Lookup p is served from a fresh cache file in this step.
FreshHit(p) ==
  /\ lpc[p] \in {"idle", "done"} /\ lpc'[p] \in {"resolved", "rejected"}
  /\ lobs'[p].net = 0
\* The fetch of lookup p fails in this step.
FetchFails(p) == lobs[p].fetch # "fail" /\ lobs'[p].fetch = "fail"

\* C22: the cache file is written only as the result of a successful
\* remote fetch and always as a whole snapshot: whenever the file changes,
\* under any interleaving of two lookups, some lookup has just received its
\* fetched document and the file is exactly that document, modified now,
\* never a merge with what it held or with another lookup's document; so
\* the file is at any time absent, as it was found, or one fetched
\* snapshot. A lookup served from a fresh cache and a lookup whose fetch
\* fails leave the file's content and modification time as they are.
C22_WholeSnapshotWrites ==
  /\ [](cacheFile.kind = "json" => cacheFile.data \in Catalogs)
  /\ [][/\ cacheFile' # cacheFile
             => \E p \in Lookups :
                  /\ FetchSucceeds(p)
                  /\ cacheFile' = JsonFile(lobs'[p].fetched, now)
        /\ \A p \in Lookups :
             (FreshHit(p) \/ FetchFails(p)) => cacheFile' = cacheFile]_vars

\* C22 witness: two lookups fetched at the same time and got different
\* documents; the file is the later writer's snapshot, whole.
C22_Witness ==
  \E p, q \in Lookups :
    /\ p # q
    /\ lobs[p].fetch = "ok" /\ lobs[q].fetch = "ok"
    /\ lobs[q].overwritten
    /\ lobs[p].fetched # lobs[q].fetched
    /\ cacheFile = lobs[q].wrote
    /\ cacheFile.data = lobs[q].fetched

(***************************************************************************)
(* Claims about the renderer.                                              *)
(***************************************************************************)
\* The backend lookup of caller c ends in this step, in the way `how`.
Ends(c, how) == rd.pc[c] = "awaiting" /\ rd'.pc[c] = "returned" /\ rd'.how[c] = how

\* The memoization rules of loadSteamAppList, step by step: the flag is
\* set only by a step in which a backend lookup returned success, and is
\* never cleared; a call made while it is set returns the stored mapping
\* and does not invoke the backend; a call made while it is clear invokes
\* the backend; a backend lookup that fails or throws returns the empty
\* mapping and leaves the stored mapping and the flag as they are.
MemoStep ==
  /\ (~rd.loaded /\ rd'.loaded) => \E c \in Callers : Ends(c, "success")
  /\ rd.loaded => rd'.loaded
  /\ rd'.calls = rd.calls + 1 =>
       \E c \in Callers :
         /\ rd.pc[c] \in {"idle", "returned"}
         /\ IF rd.loaded
            THEN /\ rd'.invoked = rd.invoked
                 /\ rd'.pc[c] = "returned"
                 /\ rd'.ret[c] = rd.cache
                 /\ rd'.cache = rd.cache
            ELSE /\ rd'.invoked = rd.invoked + 1
                 /\ rd'.pc[c] = "awaiting"
  /\ rd'.invoked # rd.invoked => rd'.calls = rd.calls + 1
  /\ \A c \in Callers :
       (Ends(c, "failure") \/ Ends(c, "throw"))
         => /\ rd'.ret[c] = <<>>
            /\ rd'.cache = rd.cache
            /\ rd'.loaded = rd.loaded
  /\ \A c \in Callers :
       Ends(c, "success") => rd'.loaded /\ rd'.ret[c] = rd'.cache

\* C23 as stated: the memoization rules above, and getGameNameFromAppID
\* returns the stored name when the identifier is present in the stored
\* mapping and the placeholder 'Game <id>' otherwise.
C23_RendererMemoization ==
  /\ [](rd.shown.id # 0 =>
          rd.shown.name = (IF rd.shown.id \in DOMAIN rd.shown.from
                           THEN <<rd.shown.from[rd.shown.id]>>
                           ELSE Placeholder(rd.shown.id)))
  /\ [][MemoStep]_vars

\* C23, amended: the memoization rules above, and getGameNameFromAppID
\* returns the stored name when the identifier is present in the stored
\* mapping with a non-empty name, and the placeholder 'Game <id>'
\* otherwise: for an absent identifier and for one stored with the empty
\* string as its name.
C23_MemoizationAndTruthyName ==
  /\ [](rd.shown.id # 0 =>
          rd.shown.name = (IF /\ rd.shown.id \in DOMAIN rd.shown.from
                              /\ rd.shown.from[rd.shown.id] # ""
                           THEN <<rd.shown.from[rd.shown.id]>>
                           ELSE Placeholder(rd.shown.id)))
  /\ [][MemoStep]_vars

\* C23 witness: a backend failure was followed by a retry that succeeded,
\* a later call was answered from the stored mapping, and a name was asked
\* for an identifier stored with an empty name.
C23_Witness ==
  /\ rd.loaded
  /\ rd.invoked = 2 /\ rd.calls = 3
  /\ \E c \in Callers : rd.how[c] = "memo" /\ rd.ret[c] = rd.cache
  /\ rd.shown.id = 30
  /\ rd.shown.from = rd.cache
  /\ 30 \in DOMAIN rd.cache /\ rd.cache[30] = ""
  /\ rd.shown.name = Placeholder(30)

====
